---- MODULE Spec2Model ----
(***************************************************************************)
(* Model of .github/workflows/css_check.py: the directory scan             *)
(* (check_files), the colour-literal matcher (check_embedded_css) and the  *)
(* report / exit status of main.  Text and paths are TLA+ strings and the  *)
(* regular expressions and os.path functions are computed character by     *)
(* character.                                                              *)
(***************************************************************************)
EXTENDS Integers, Sequences, FiniteSets, TLC

VARIABLES args, probe, pc, stack, root, files, analysed,
          violations, correct_css_imports, embedded_css_violations,
          stdout, exit_code

vars == <<args, probe, pc, stack, root, files, analysed,
          violations, correct_css_imports, embedded_css_violations,
          stdout, exit_code>>

(***************************************************************************)
(* Strings                                                                 *)
(***************************************************************************)
Ch(s, i) == SubSeq(s, i, i)

StartsWith(s, p) == Len(p) <= Len(s) /\ SubSeq(s, 1, Len(p)) = p

EndsWith(s, p) == Len(p) <= Len(s) /\ SubSeq(s, Len(s) - Len(p) + 1, Len(s)) = p

Contains(s, p) == \E i \in 1..(Len(s) - Len(p) + 1) : SubSeq(s, i, i + Len(p) - 1) = p

RECURSIVE JoinWith(_, _)
JoinWith(sep, seq) ==
  IF seq = <<>> THEN ""
  ELSE IF Len(seq) = 1 THEN seq[1]
  ELSE seq[1] \o sep \o JoinWith(sep, Tail(seq))

RECURSIVE SplitAt(_, _, _)
SplitAt(s, i, cur) ==
  IF i > Len(s) THEN <<cur>>
  ELSE IF Ch(s, i) = "/" THEN <<cur>> \o SplitAt(s, i + 1, "")
  ELSE SplitAt(s, i + 1, cur \o Ch(s, i))

Split(s) == SplitAt(s, 1, "")

RECURSIVE RFind(_, _, _)
RFind(s, c, i) ==
  IF i = 0 THEN 0 ELSE IF Ch(s, i) = c THEN i ELSE RFind(s, c, i - 1)

RECURSIVE RStrip(_, _)
RStrip(s, c) ==
  IF s # "" /\ Ch(s, Len(s)) = c THEN RStrip(SubSeq(s, 1, Len(s) - 1), c) ELSE s

(***************************************************************************)
(* os.path (posixpath)                                                     *)
(***************************************************************************)
Cwd == "/w"

isabs(path) == StartsWith(path, "/")

join(a, b) ==
  IF isabs(b) THEN b
  ELSE IF a = "" \/ EndsWith(a, "/") THEN a \o b
  ELSE a \o "/" \o b

dirname(p) ==
  LET head == SubSeq(p, 1, RFind(p, "/", Len(p)))
  IN  IF head # "" /\ RStrip(head, "/") # "" THEN RStrip(head, "/") ELSE head

RECURSIVE NormComps(_, _, _, _)
NormComps(comps, i, acc, initial) ==
  IF i > Len(comps) THEN acc
  ELSE LET comp == comps[i] IN
    IF comp \in {"", "."} THEN NormComps(comps, i + 1, acc, initial)
    ELSE IF comp # ".." \/ (initial = 0 /\ acc = <<>>)
                         \/ (acc # <<>> /\ acc[Len(acc)] = "..")
      THEN NormComps(comps, i + 1, Append(acc, comp), initial)
    ELSE IF acc # <<>>
      THEN NormComps(comps, i + 1, SubSeq(acc, 1, Len(acc) - 1), initial)
    ELSE NormComps(comps, i + 1, acc, initial)

normpath(path) ==
  IF path = "" THEN "."
  ELSE LET initial == IF ~StartsWith(path, "/") THEN 0
                      ELSE IF StartsWith(path, "//") /\ ~StartsWith(path, "///") THEN 2
                      ELSE 1
           body == JoinWith("/", NormComps(Split(path), 1, <<>>, initial))
           res  == (IF initial = 2 THEN "//" ELSE IF initial = 1 THEN "/" ELSE "") \o body
       IN  IF res = "" THEN "." ELSE res

abspath(path) == normpath(IF isabs(path) THEN path ELSE join(Cwd, path))

(***************************************************************************)
(* The file system the scan reads.  Directory listings are in the order    *)
(* os.walk receives them.  The content of sub/P.tsx is the input `probe`.  *)
(***************************************************************************)
FsTree ==
     "/"          :> [dirs |-> <<"w">>,                files |-> <<>>]
  @@ "/w"         :> [dirs |-> <<"s">>,                files |-> <<>>]
  @@ "/w/s"       :> [dirs |-> <<"ex", "test", "sub">>, files |-> <<"n.md", "g.css">>]
  @@ "/w/s/ex"    :> [dirs |-> <<"in">>,               files |-> <<"E.tsx">>]
  @@ "/w/s/ex/in" :> [dirs |-> <<>>,                   files |-> <<"I.ts">>]
  @@ "/w/s/test"  :> [dirs |-> <<>>,                   files |-> <<"W.tsx">>]
  @@ "/w/s/sub"   :> [dirs |-> <<>>,
                      files |-> <<"Bad.ts", "C.ts", "P.tsx", "app.module.css">>]

FsDirs == DOMAIN FsTree

FsFilePaths ==
  UNION { { join(d, FsTree[d].files[i]) : i \in 1..Len(FsTree[d].files) } : d \in FsDirs }

FsUnreadable == { "/w/s/sub/Bad.ts" }

ProbePath == "/w/s/sub/P.tsx"

FileContent(path) ==
  CASE path = ProbePath           -> probe
    [] path = "/w/s/ex/E.tsx"     -> "import 'no.css'\n#abc"
    [] path = "/w/s/ex/in/I.ts"   -> "c = '#abcdef'"
    [] path = "/w/s/test/W.tsx"   -> "import 'no.css'\n#abc"
    [] path = "/w/s/sub/C.ts"     -> "import s from \"./app.module.css\"\n"
    [] path = "/w/s/n.md"         -> "#abc"
    [] OTHER                      -> ""

ENOENT == "ENOENT"

\* Path resolution as the operating system does it for stat() and scandir().
RECURSIVE Resolve(_, _, _)
Resolve(comps, i, cur) ==
  IF i > Len(comps) THEN cur
  ELSE IF cur \notin FsDirs THEN ENOENT
  ELSE IF comps[i] \in {"", "."} THEN Resolve(comps, i + 1, cur)
  ELSE IF comps[i] = ".." THEN Resolve(comps, i + 1, dirname(cur))
  ELSE LET nxt == join(cur, comps[i])
       IN  IF nxt \in FsDirs \cup FsFilePaths
             THEN Resolve(comps, i + 1, nxt) ELSE ENOENT

Lookup(path) ==
  IF path = "" THEN ENOENT
  ELSE Resolve(Split(path), 1, IF isabs(path) THEN "/" ELSE Cwd)

exists(path) == Lookup(path) # ENOENT

\* The (root, dirs, files) triple os.walk yields for `top`; nothing when
\* `top` is not a directory.
WalkEntry(top) ==
  LET d == Lookup(top)
  IN  IF d \in FsDirs THEN [dirs |-> FsTree[d].dirs, files |-> FsTree[d].files]
      ELSE [dirs |-> <<>>, files |-> <<>>]

\* Roots of the sub-directories os.walk descends into after `top`.
WalkChildren(top) ==
  LET dirs == WalkEntry(top).dirs
  IN  [i \in 1..Len(dirs) |-> join(top, dirs[i])]

(***************************************************************************)
(* Regular expressions                                                     *)
(***************************************************************************)
HexDigits == {"0", "1", "2", "3", "4", "5", "6", "7", "8", "9",
              "a", "b", "c", "d", "e", "f", "A", "B", "C", "D", "E", "F"}

Whitespace == {" ", "\t", "\n", "\r", "\f"}

Quotes == {"\"", "'"}

HexRun(s, i, n) == i + n - 1 <= Len(s) /\ \A k \in i..(i + n - 1) : Ch(s, k) \in HexDigits

NoNewline(s, i, j) == \A t \in i..j : Ch(s, t) # "\n"

MinOf(S) == CHOOSE x \in S : \A y \in S : x <= y

\* re.findall(r"#([0-9a-fA-F]{3}){1,2}", content): non-overlapping matches
\* from the left; with one group in the pattern findall returns the text of
\* that group, which for a repeated group is its last repetition.
RECURSIVE FindColors(_, _)
FindColors(s, i) ==
  IF i > Len(s) THEN <<>>
  ELSE IF Ch(s, i) = "#" /\ HexRun(s, i + 1, 3)
    THEN IF HexRun(s, i + 4, 3)
           THEN <<SubSeq(s, i + 4, i + 6)>> \o FindColors(s, i + 7)
           ELSE <<SubSeq(s, i + 1, i + 3)>> \o FindColors(s, i + 4)
  ELSE FindColors(s, i + 1)

check_embedded_css(content) == FindColors(content, 1)

RECURSIVE WsEnd(_, _)
WsEnd(s, j) == IF j <= Len(s) /\ Ch(s, j) \in Whitespace THEN WsEnd(s, j + 1) ELSE j

\* Ends k of the group (.+?\.css) opened by the quote at q.
GroupEnds(s, q) ==
  { k \in (q + 5)..(Len(s) - 1) :
      /\ SubSeq(s, k - 3, k) = ".css"
      /\ NoNewline(s, q + 1, k)
      /\ Ch(s, k + 1) \in Quotes }

\* Opening quotes the lazy .*? can stop at, after the whitespace run
\* ending before e.
OpenQuotes(s, e) ==
  { q \in e..Len(s) :
      /\ Ch(s, q) \in Quotes
      /\ NoNewline(s, e, q - 1)
      /\ GroupEnds(s, q) # {} }

\* A match of r'import\s+.*?["\'](.+?\.css)["\']' starting at i.
ImportMatchAt(s, i) ==
  LET e == WsEnd(s, i + 6)
  IN  IF i + 5 <= Len(s) /\ SubSeq(s, i, i + 5) = "import" /\ e > i + 6
           /\ OpenQuotes(s, e) # {}
        THEN LET q == MinOf(OpenQuotes(s, e))
                 k == MinOf(GroupEnds(s, q))
             IN  [ok |-> TRUE, group |-> SubSeq(s, q + 1, k), end |-> k + 1]
        ELSE [ok |-> FALSE, group |-> "", end |-> i]

RECURSIVE FindImports(_, _)
FindImports(s, i) ==
  IF i > Len(s) THEN <<>>
  ELSE LET m == ImportMatchAt(s, i)
       IN  IF m.ok THEN <<m.group>> \o FindImports(s, m.end + 1)
           ELSE FindImports(s, i + 1)

css_imports_of(content) == FindImports(content, 1)

(***************************************************************************)
(* Inputs                                                                  *)
(***************************************************************************)
MaxFrags == 2

Fragments ==
  << "import \"./app.module.css\";\n",
     "import g from 'g.css'\n",
     "import 'no.css'\n",
     "color: #1A2b3C;\n",
     "b: #fff " >>

RECURSIVE Concat(_, _)
Concat(idx, i) ==
  IF i > Len(idx) THEN "" ELSE Fragments[idx[i]] \o Concat(idx, i + 1)

Contents ==
  { Concat(idx, 1) : idx \in UNION { [1..n -> 1..Len(Fragments)] : n \in 0..MaxFrags } }

Directories == { "s", "/w/s" }

ExcludeDirectoryLists == { <<>>, <<"s/ex">>, <<"/w/s/ex">> }

ExcludeFileLists == { <<>>, <<"s/sub/C.ts">> }

AllowedPatternLists == { <<>>, <<"app.module.css">>, <<"o.css", "g.css">> }

Args ==
  [ directory            : Directories,
    exclude_files        : ExcludeFileLists,
    exclude_directories  : ExcludeDirectoryLists,
    allowed_css_patterns : AllowedPatternLists,
    show_success         : BOOLEAN ]

Range(seq) == { seq[i] : i \in 1..Len(seq) }

(***************************************************************************)
(* check_files                                                             *)
(***************************************************************************)
exclude_files_set == { abspath(f) : f \in Range(args.exclude_files) }

exclude_directories_set == { abspath(d) : d \in Range(args.exclude_directories) }

DirExcluded(r) == \E exclude_dir \in exclude_directories_set : StartsWith(r, exclude_dir)

FilePath(r, file) == abspath(join(r, file))

\* Variant: the directory name is not looked at.
Selected_AnyDir(r, file) == EndsWith(file, ".ts") \/ EndsWith(file, ".tsx")

Selected(r, file) ==
  (EndsWith(file, ".ts") \/ EndsWith(file, ".tsx")) /\ ~Contains(r, "test")

\* Variant: no second candidate under the scan root.
ResolveCssPath_NoFallback(file_path, css_file, directory) ==
  join(dirname(file_path), css_file)

ResolveCssPath(file_path, css_file, directory) ==
  LET first == join(dirname(file_path), css_file)
  IN  IF ~exists(first) THEN join(abspath(directory), css_file) ELSE first

\* Variant: the suffix check runs before the existence check.
ClassifyImport_SuffixFirst(file_path, css_file, directory, allowed_css_patterns) ==
  LET css_file_path == ResolveCssPath(file_path, css_file, directory)
  IN  IF \E pattern \in Range(allowed_css_patterns) : EndsWith(css_file, pattern)
        THEN [list |-> "correct_css_imports",
              entry |-> [file_path |-> file_path, css_file |-> css_file]]
      ELSE IF ~exists(css_file_path)
        THEN [list |-> "violations",
              entry |-> [file_path |-> file_path, css_file |-> css_file,
                         reason |-> "File not found"]]
      ELSE [list |-> "violations",
            entry |-> [file_path |-> file_path, css_file |-> css_file,
                       reason |-> "Invalid import"]]

\* The list an import goes to and the entry appended to it.
ClassifyImport(file_path, css_file, directory, allowed_css_patterns) ==
  LET css_file_path == ResolveCssPath(file_path, css_file, directory)
  IN  IF ~exists(css_file_path)
        THEN [list |-> "violations",
              entry |-> [file_path |-> file_path, css_file |-> css_file,
                         reason |-> "File not found"]]
      ELSE IF \E pattern \in Range(allowed_css_patterns) : EndsWith(css_file, pattern)
        THEN [list |-> "correct_css_imports",
              entry |-> [file_path |-> file_path, css_file |-> css_file]]
      ELSE [list |-> "violations",
            entry |-> [file_path |-> file_path, css_file |-> css_file,
                       reason |-> "Invalid import"]]

\* Variant: a reference already seen in the file is not classified again.
RECURSIVE ImportLoop_Dedup(_, _, _, _, _, _)
ImportLoop_Dedup(file_path, css_imports, i, directory, allowed_css_patterns, acc) ==
  IF i > Len(css_imports) THEN acc
  ELSE LET c == ClassifyImport(file_path, css_imports[i], directory, allowed_css_patterns)
       IN  ImportLoop_Dedup(file_path, css_imports, i + 1, directory, allowed_css_patterns,
                      IF \E j \in 1..(i - 1) : css_imports[j] = css_imports[i]
                        THEN acc
                      ELSE IF c.list = "violations"
                        THEN [acc EXCEPT !.violations = Append(@, c.entry)]
                        ELSE [acc EXCEPT !.correct = Append(@, c.entry)])

\* for css_file in css_imports: ...   acc holds the two lists being appended to.
RECURSIVE ImportLoop(_, _, _, _, _, _)
ImportLoop(file_path, css_imports, i, directory, allowed_css_patterns, acc) ==
  IF i > Len(css_imports) THEN acc
  ELSE LET c == ClassifyImport(file_path, css_imports[i], directory, allowed_css_patterns)
       IN  ImportLoop(file_path, css_imports, i + 1, directory, allowed_css_patterns,
                      IF c.list = "violations"
                        THEN [acc EXCEPT !.violations = Append(@, c.entry)]
                        ELSE [acc EXCEPT !.correct = Append(@, c.entry)])

\* Variant: one entry per matched colour code.
EmbeddedEntries_PerCode(file_path, embedded_css) ==
  [i \in 1..Len(embedded_css) |->
     [file_path |-> file_path, css_codes |-> <<embedded_css[i]>>]]

\* if embedded_css: embedded_css_violations.append(...)
EmbeddedEntries(file_path, embedded_css) ==
  IF embedded_css # <<>>
    THEN << [file_path |-> file_path, css_codes |-> embedded_css] >>
    ELSE <<>>

Init ==
  /\ args \in Args
  /\ probe \in Contents
  /\ pc = "walk"
  /\ stack = << args.directory >>
  /\ root = ""
  /\ files = <<>>
  /\ analysed = {}
  /\ violations = <<>>
  /\ correct_css_imports = <<>>
  /\ embedded_css_violations = <<>>
  /\ stdout = <<>>
  /\ exit_code = -1

Results == <<violations, correct_css_imports, embedded_css_violations>>

\* os.walk yields the next directory and it is excluded.
SkipExcludedDir ==
  /\ pc = "walk" /\ stack # <<>>
  /\ DirExcluded(Head(stack))
  /\ stack' = WalkChildren(Head(stack)) \o Tail(stack)
  /\ root' = Head(stack)
  /\ files' = <<>>
  /\ UNCHANGED <<args, probe, pc, analysed, Results, stdout, exit_code>>

\* os.walk yields the next directory and its files are gone through.
EnterDir ==
  /\ pc = "walk" /\ stack # <<>>
  /\ ~DirExcluded(Head(stack))
  /\ stack' = WalkChildren(Head(stack)) \o Tail(stack)
  /\ root' = Head(stack)
  /\ files' = WalkEntry(Head(stack)).files
  /\ pc' = IF files' = <<>> THEN "walk" ELSE "files"
  /\ UNCHANGED <<args, probe, analysed, Results, stdout, exit_code>>

NextFile ==
  /\ files' = Tail(files)
  /\ pc' = IF Tail(files) = <<>> THEN "walk" ELSE "files"
  /\ UNCHANGED <<args, probe, stack, root, exit_code>>

SkipExcludedFile ==
  /\ pc = "files"
  /\ FilePath(root, Head(files)) \in exclude_files_set
  /\ NextFile
  /\ UNCHANGED <<analysed, Results, stdout>>

SkipUnselected ==
  /\ pc = "files"
  /\ FilePath(root, Head(files)) \notin exclude_files_set
  /\ ~Selected(root, Head(files))
  /\ NextFile
  /\ UNCHANGED <<analysed, Results, stdout>>

\* Variant: a read failure ends the scan of the directory.
ReadError_Break ==
  /\ pc = "files"
  /\ FilePath(root, Head(files)) \notin exclude_files_set
  /\ Selected(root, Head(files))
  /\ FilePath(root, Head(files)) \in FsUnreadable
  /\ stdout' = Append(stdout, "Error reading file " \o FilePath(root, Head(files))
                                \o ": Permission denied")
  /\ files' = <<>>
  /\ pc' = "walk"
  /\ UNCHANGED <<args, probe, stack, root, exit_code, analysed, Results>>

ReadError ==
  /\ pc = "files"
  /\ FilePath(root, Head(files)) \notin exclude_files_set
  /\ Selected(root, Head(files))
  /\ FilePath(root, Head(files)) \in FsUnreadable
  /\ stdout' = Append(stdout, "Error reading file " \o FilePath(root, Head(files)) \o ": Permission denied")
  /\ NextFile
  /\ UNCHANGED <<analysed, Results>>

AnalyseFile ==
  /\ pc = "files"
  /\ FilePath(root, Head(files)) \notin exclude_files_set
  /\ Selected(root, Head(files))
  /\ FilePath(root, Head(files)) \notin FsUnreadable
  /\ LET file_path == FilePath(root, Head(files))
         content   == FileContent(file_path)
         lists     == ImportLoop(file_path, css_imports_of(content), 1, args.directory,
                                 args.allowed_css_patterns,
                                 [violations |-> violations, correct |-> correct_css_imports])
     IN  /\ violations' = lists.violations
         /\ correct_css_imports' = lists.correct
         /\ embedded_css_violations' =
              embedded_css_violations \o EmbeddedEntries(file_path, check_embedded_css(content))
         /\ analysed' = analysed \cup {file_path}
  /\ NextFile
  /\ UNCHANGED stdout

(***************************************************************************)
(* main                                                                    *)
(***************************************************************************)
ViolationLines(v) ==
  [i \in 1..Len(v) |->
     "- " \o v[i].file_path \o ": " \o v[i].css_file \o " (" \o v[i].reason \o ")"]

EmbeddedLines(e) ==
  [i \in 1..Len(e) |-> "- " \o e[i].file_path \o ": " \o JoinWith(", ", e[i].css_codes)]

CorrectLines(c) ==
  [i \in 1..Len(c) |-> "- " \o c[i].file_path \o ": " \o c[i].css_file]

ImportHeader == "CSS Import Violations:"

EmbeddedHeader == "\nEmbedded CSS Violations:"

CorrectHeader == "\nCorrect CSS Imports:"

Remediation ==
  "\nPlease address the above CSS violations:\n"
  \o "1. For invalid CSS imports, ensure you're using the correct import syntax and file paths.\n"
  \o "2. For embedded CSS, move the CSS to appropriate stylesheet files and import them correctly.\n"
  \o "3. Make sure to use only the allowed CSS patterns as specified in the script arguments.\n"
  \o "4. Check that all imported CSS files exist in the specified locations.\n"

\* The list `output` main builds from the result.
ReportOutput(v, e) ==
     (IF v # <<>> THEN <<ImportHeader>> \o ViolationLines(v) ELSE <<>>)
  \o (IF e # <<>> THEN <<EmbeddedHeader>> \o EmbeddedLines(e) ELSE <<>>)

\* Variant: only the import violations set the exit code.
ReportExitCode_ImportsOnly(v, e) == IF v # <<>> THEN 1 ELSE 0

\* exit_code as the two `if` blocks of main leave it.
ReportExitCode(v, e) ==
  LET afterImports == IF v # <<>> THEN 1 ELSE 0
  IN  IF e # <<>> THEN 1 ELSE afterImports

\* Variant: the compliant imports are printed only when nothing else was.
ReportPrints_SuccessOnlyWhenClean(show_success, v, c, e) ==
  LET output == ReportOutput(v, e)
  IN  IF output # <<>> THEN <<JoinWith("\n", output), Remediation>>
      ELSE IF show_success /\ c # <<>> THEN <<CorrectHeader>> \o CorrectLines(c)
      ELSE <<>>

\* The arguments of the print calls main makes, in order.
ReportPrints(show_success, v, c, e) ==
  LET output == ReportOutput(v, e)
  IN     (IF output # <<>> THEN <<JoinWith("\n", output), Remediation>> ELSE <<>>)
      \o (IF show_success /\ c # <<>> THEN <<CorrectHeader>> \o CorrectLines(c) ELSE <<>>)

\* check_files has returned: main prints its report and exits.
Main ==
  /\ pc = "walk" /\ stack = <<>>
  /\ stdout' = stdout \o ReportPrints(args.show_success, violations,
                                      correct_css_imports, embedded_css_violations)
  /\ exit_code' = ReportExitCode(violations, embedded_css_violations)
  /\ pc' = "done"
  /\ UNCHANGED <<args, probe, stack, root, files, analysed, Results>>

Next ==
  \/ SkipExcludedDir
  \/ EnterDir
  \/ SkipExcludedFile
  \/ SkipUnselected
  \/ ReadError
  \/ AnalyseFile
  \/ Main

Spec == Init /\ [][Next]_vars

(***************************************************************************)
(* Properties                                                              *)
(***************************************************************************)
EntriesFor(list, fp) == SelectSeq(list, LAMBDA e : e.file_path = fp)

CountIn(list, e) == Cardinality({ i \in 1..Len(list) : list[i] = e })

Occurrences(seq, x) == Cardinality({ i \in 1..Len(seq) : seq[i] = x })

AllEntries == Range(violations) \cup Range(correct_css_imports) \cup Range(embedded_css_violations)

NoEntriesFor(fp) == \A e \in AllEntries : e.file_path # fp

\* Every directory os.walk yields when started at `top`.
RECURSIVE WalkRoots(_)
WalkRoots(top) == {top} \cup UNION { WalkRoots(c) : c \in Range(WalkChildren(top)) }

ExistsUnderEitherCandidate(fp, ref) ==
  exists(join(dirname(fp), ref)) \/ exists(join(abspath(args.directory), ref))

MatchesAllowedSuffix(ref) ==
  \E k \in 1..Len(args.allowed_css_patterns) : EndsWith(ref, args.allowed_css_patterns[k])

NotFoundEntry(fp, ref) == [file_path |-> fp, css_file |-> ref, reason |-> "File not found"]

InvalidEntry(fp, ref) == [file_path |-> fp, css_file |-> ref, reason |-> "Invalid import"]

CorrectEntry(fp, ref) == [file_path |-> fp, css_file |-> ref]

\* C1: main exits with 0 exactly when the import-violation list and the
\* embedded-violation list are both empty and with 1 otherwise, whatever
\* --show_success and the compliant-import list are.
ExitCodeIffNoViolations ==
  pc = "done" =>
    /\ exit_code \in {0, 1}
    /\ exit_code = 0 <=> (violations = <<>> /\ embedded_css_violations = <<>>)

ExitZeroWithCompliantShown ==
  /\ pc = "done" /\ exit_code = 0
  /\ args.show_success /\ correct_css_imports # <<>>

\* C2: a file containing '#' followed by six hex digits gets exactly one
\* EmbeddedViolation whose token list contains the full six-digit string.
SixDigitColorReportedInFull ==
  \A fp \in analysed :
    LET content == FileContent(fp)
        es      == EntriesFor(embedded_css_violations, fp)
    IN  \A i \in 1..Len(content) :
          (Ch(content, i) = "#" /\ HexRun(content, i + 1, 6)) =>
            /\ Len(es) = 1
            /\ SubSeq(content, i + 1, i + 6) \in Range(es[1].css_codes)

\* C3: an import whose target exists under neither candidate path is
\* recorded once per occurrence as a "File not found" violation and never as
\* a compliant import, whatever the allowed-suffix list holds.
MissingImportIsFileNotFound ==
  \A fp \in analysed :
    LET imps == css_imports_of(FileContent(fp))
    IN  \A ref \in Range(imps) :
          ~ExistsUnderEitherCandidate(fp, ref) =>
            /\ CountIn(violations, NotFoundEntry(fp, ref)) = Occurrences(imps, ref)
            /\ CountIn(violations, InvalidEntry(fp, ref)) = 0
            /\ CountIn(correct_css_imports, CorrectEntry(fp, ref)) = 0

MissingImportWithAllowedSuffixSeen ==
  \E fp \in analysed :
    \E ref \in Range(css_imports_of(FileContent(fp))) :
      /\ ~ExistsUnderEitherCandidate(fp, ref)
      /\ MatchesAllowedSuffix(ref)
      /\ CountIn(violations, NotFoundEntry(fp, ref)) > 0

\* C4: an import whose target exists is a compliant import exactly when the
\* raw reference ends with an allowed suffix, and otherwise an "Invalid
\* import" violation, never "File not found".
ExistingImportDecidedBySuffix ==
  \A fp \in analysed :
    LET imps == css_imports_of(FileContent(fp))
    IN  \A ref \in Range(imps) :
          ExistsUnderEitherCandidate(fp, ref) =>
            /\ CountIn(violations, NotFoundEntry(fp, ref)) = 0
            /\ IF MatchesAllowedSuffix(ref)
                 THEN /\ CountIn(correct_css_imports, CorrectEntry(fp, ref))
                           = Occurrences(imps, ref)
                      /\ CountIn(violations, InvalidEntry(fp, ref)) = 0
                 ELSE /\ CountIn(violations, InvalidEntry(fp, ref))
                           = Occurrences(imps, ref)
                      /\ CountIn(correct_css_imports, CorrectEntry(fp, ref)) = 0

ExistingImportsBothWaysSeen ==
  \E fp \in analysed :
    \E r1, r2 \in Range(css_imports_of(FileContent(fp))) :
      /\ ExistsUnderEitherCandidate(fp, r1) /\ ExistsUnderEitherCandidate(fp, r2)
      /\ ~exists(join(dirname(fp), r1))
      /\ CountIn(correct_css_imports, CorrectEntry(fp, r1)) > 0
      /\ CountIn(violations, InvalidEntry(fp, r2)) > 0

\* C5: no file of a directory whose absolute path starts with the absolute
\* form of an --exclude_directories entry contributes an entry to any result
\* list, for absolute and for relative scan roots and entries alike.
ExcludedDirectoriesContributeNothing ==
  \A e \in AllEntries :
    ~\E exclude_dir \in exclude_directories_set :
        StartsWith(dirname(e.file_path), exclude_dir)

\* C6: a file in a walked directory one of whose path components contains
\* "test" contributes no entry to any of the three result lists.
TestDirectoriesContributeNothing ==
  \A r \in WalkRoots(args.directory) :
    (\E comp \in Range(Split(r)) : Contains(comp, "test")) =>
      \A file \in Range(WalkEntry(r).files) : NoEntriesFor(FilePath(r, file))

TestDirectoryFileSkipped ==
  /\ pc = "done"
  /\ analysed # {}
  /\ \E r \in WalkRoots(args.directory) :
       /\ \E comp \in Range(Split(r)) : Contains(comp, "test")
       /\ ~DirExcluded(r)
       /\ \E file \in Range(WalkEntry(r).files) :
            /\ EndsWith(file, ".tsx")
            /\ css_imports_of(FileContent(FilePath(r, file))) # <<>>
            /\ check_embedded_css(FileContent(FilePath(r, file))) # <<>>

\* C7: a selected file that cannot be read gets a diagnostic and no entry,
\* and every other selected file is analysed with the entries it has on its
\* own.
ReadFailureSkipsOnlyThatFile ==
  pc = "done" =>
    \A r \in WalkRoots(args.directory) :
      ~DirExcluded(r) =>
        \A file \in Range(WalkEntry(r).files) :
          LET fp      == FilePath(r, file)
              content == FileContent(fp)
              own     == ImportLoop(fp, css_imports_of(content), 1, args.directory,
                                    args.allowed_css_patterns,
                                    [violations |-> <<>>, correct |-> <<>>])
          IN  (fp \notin exclude_files_set /\ Selected(r, file)) =>
                IF fp \in FsUnreadable
                  THEN /\ NoEntriesFor(fp)
                       /\ \E i \in 1..Len(stdout) :
                            StartsWith(stdout[i], "Error reading file " \o fp)
                  ELSE /\ EntriesFor(violations, fp) = own.violations
                       /\ EntriesFor(correct_css_imports, fp) = own.correct
                       /\ EntriesFor(embedded_css_violations, fp)
                            = EmbeddedEntries(fp, check_embedded_css(content))

FileAfterUnreadableAnalysed ==
  /\ pc = "done"
  /\ \E i \in 1..Len(stdout) : StartsWith(stdout[i], "Error reading file /w/s/sub/Bad.ts")
  /\ NoEntriesFor("/w/s/sub/Bad.ts")
  /\ ProbePath \in analysed
  /\ EntriesFor(violations, ProbePath) # <<>>
  /\ EntriesFor(embedded_css_violations, ProbePath) # <<>>

\* What the print calls put on standard output: each argument and a newline.
StdoutText == JoinWith("\n", stdout) \o "\n"

\* Position of the first occurrence of h in s, 0 when there is none.
Pos(s, h) ==
  LET hits == { i \in 1..(Len(s) - Len(h) + 1) : SubSeq(s, i, i + Len(h) - 1) = h }
  IN  IF hits = {} THEN 0 ELSE MinOf(hits)

Ordered(a, b) == (a > 0 /\ b > 0) => a < b

\* C8: the import section is printed iff there are import violations, the
\* embedded section iff there are embedded violations, the remediation
\* message iff one of the two was printed, the compliant section iff
\* --show_success is set and there are compliant imports; in that order.
ReportSectionsOnlyWhenNonEmpty ==
  pc = "done" =>
    LET text == StdoutText
        pi   == Pos(text, ImportHeader)
        pe   == Pos(text, EmbeddedHeader)
        pr   == Pos(text, Remediation)
        pk   == Pos(text, CorrectHeader)
    IN  /\ (pi > 0) <=> (violations # <<>>)
        /\ (pe > 0) <=> (embedded_css_violations # <<>>)
        /\ (pr > 0) <=> (pi > 0 \/ pe > 0)
        /\ (pk > 0) <=> (args.show_success /\ correct_css_imports # <<>>)
        /\ Ordered(pi, pe) /\ Ordered(pi, pr) /\ Ordered(pe, pr)
        /\ Ordered(pi, pk) /\ Ordered(pe, pk) /\ Ordered(pr, pk)

AllFourSectionsPrinted ==
  /\ pc = "done"
  /\ violations # <<>> /\ embedded_css_violations # <<>>
  /\ args.show_success /\ correct_css_imports # <<>>
  /\ Pos(StdoutText, CorrectHeader) > Pos(StdoutText, Remediation)

\* C9: every import reference extracted from an analysed file has exactly
\* one entry, in the violation list or in the compliant list and not in
\* both, duplicates included, carrying the file's path and the raw reference.
EachImportExactlyOneEntry ==
  /\ \A e \in AllEntries : e.file_path \in analysed
  /\ \A fp \in analysed :
       LET imps == css_imports_of(FileContent(fp))
           v    == EntriesFor(violations, fp)
           c    == EntriesFor(correct_css_imports, fp)
           refV(ref) == Cardinality({ i \in 1..Len(v) : v[i].css_file = ref })
           refC(ref) == Cardinality({ i \in 1..Len(c) : c[i].css_file = ref })
       IN  /\ Len(v) + Len(c) = Len(imps)
           /\ \A i \in 1..Len(v) : v[i].css_file \in Range(imps)
           /\ \A i \in 1..Len(c) : c[i].css_file \in Range(imps)
           /\ \A ref \in Range(imps) :
                \/ refV(ref) = Occurrences(imps, ref) /\ refC(ref) = 0
                \/ refC(ref) = Occurrences(imps, ref) /\ refV(ref) = 0

DuplicateImportKeptTwice ==
  \E fp \in analysed :
    LET imps == css_imports_of(FileContent(fp))
    IN  /\ \E i, j \in 1..Len(imps) : i # j /\ imps[i] = imps[j]
        /\ Len(EntriesFor(violations, fp)) + Len(EntriesFor(correct_css_imports, fp)) = 2

HasColorLiteral(content) ==
  \E i \in 1..Len(content) : Ch(content, i) = "#" /\ HexRun(content, i + 1, 3)

\* C10: an analysed file has exactly one EmbeddedViolation entry when its
\* content holds a colour literal and none otherwise, however its imports
\* were classified; with no import and no colour literal it has no entry in
\* any list.
OneEmbeddedEntryIffColorLiteral ==
  \A fp \in analysed :
    LET content == FileContent(fp)
    IN  /\ Len(EntriesFor(embedded_css_violations, fp))
             = IF HasColorLiteral(content) THEN 1 ELSE 0
        /\ (css_imports_of(content) = <<>> /\ ~HasColorLiteral(content))
             => NoEntriesFor(fp)

TwoLiteralsOneEntry ==
  \E fp \in analysed :
    /\ Len(check_embedded_css(FileContent(fp))) >= 2
    /\ Len(EntriesFor(embedded_css_violations, fp)) = 1

====
